---- MODULE Spec2Model ----
(***************************************************************************)
(* A model of the request handlers of shareasecret                         *)
(* (src/internal/shareasecret/web.go): the secrets table, the four secret  *)
(* handlers, the index page and the flash-cookie notifications.            *)
(*                                                                         *)
(* Strings are sequences of one-character strings, except fixed texts of   *)
(* the program (messages, route prefixes), which are one token each.       *)
(* A nullable SQL column holds NULL (the empty tuple) or Some(v) = <<v>>.  *)
(* Every handler issues exactly one SQL statement, which the database      *)
(* executes atomically, so a handler is one action.                        *)
(***************************************************************************)
EXTENDS Integers, Sequences, FiniteSets, TLC

VARIABLES
    secrets,    \* the rows of table secrets, in insertion order
    now,        \* the clock read by time.Now().UnixMilli()
    cookies,    \* the flash cookies the browser holds: name -> NULL | Some(value)
    last,       \* the last request served and its response
    created,    \* history: one entry per successful Create (its redirect and input)
    deleteDone, \* history: management ids of existing rows a Delete succeeded on
    procs       \* the requests in flight, when handlers run concurrently

vars == <<secrets, now, cookies, last, created, deleteDone, procs>>

----------------------------------------------------------------------------
(* Bounds of the model *)

MaxSecrets == 2     \* Create is not explored beyond this many rows
MaxTime == 1        \* the clock stops ticking here
MaxProcs == 2       \* the number of requests served at the same time

----------------------------------------------------------------------------
(* Values *)

NULL == <<>>
Some(v) == <<v>>
IsNull(o) == o = NULL
Val(o) == o[1]

StatusOK == 200
StatusCreated == 201
StatusSeeOther == 303
StatusBadRequest == 400
StatusInternalServerError == 500

deletionReasonUserDeleted == "user_deleted"

MsgParseForm == <<"Unable to parse request form. Please try again.">>
MsgSecretFormat == <<"Secret format is invalid. Please try again.">>
MsgParseTTL == <<"Unable to parse the TTL (time to live) for the secret.">>
MsgNotFound == <<"Secret does not exist or has been deleted.">>
MsgDeleted == <<"Secret successfully deleted.">>

baseURL == <<"https://host">>

----------------------------------------------------------------------------
(* Library functions the handlers call *)

\* strings.Count(s, c) for a one-character c
RECURSIVE Count(_, _)
Count(s, c) ==
    IF s = <<>> THEN 0
    ELSE (IF Head(s) = c THEN 1 ELSE 0) + Count(Tail(s), c)

Digits == <<"0", "1", "2", "3", "4", "5", "6", "7", "8", "9">>
IsDigit(c) == \E i \in 1..Len(Digits) : Digits[i] = c
DigitVal(c) == (CHOOSE i \in 1..Len(Digits) : Digits[i] = c) - 1

RECURSIVE ParseDigits(_, _)
ParseDigits(s, acc) ==
    IF s = <<>> THEN acc
    ELSE ParseDigits(Tail(s), acc * 10 + DigitVal(Head(s)))

\* strconv.Atoi: an optional sign, then one or more decimal digits
Atoi(s) ==
    LET signed == s # <<>> /\ Head(s) \in {"+", "-"}
        ds == IF signed THEN Tail(s) ELSE s
        ok == ds # <<>> /\ \A i \in 1..Len(ds) : IsDigit(ds[i])
    IN  IF ~ok THEN [val |-> 0, err |-> TRUE]
        ELSE [val |-> IF signed /\ Head(s) = "-"
                      THEN 0 - ParseDigits(ds, 0)
                      ELSE ParseDigits(ds, 0),
              err |-> FALSE]

HexDigits == <<"0", "1", "2", "3", "4", "5", "6", "7",
               "8", "9", "a", "b", "c", "d", "e", "f">>

\* hex.EncodeToString: two lower-case hex digits per byte
RECURSIVE HexEncodeToString(_)
HexEncodeToString(b) ==
    IF b = <<>> THEN <<>>
    ELSE <<HexDigits[(Head(b) \div 16) + 1], HexDigits[(Head(b) % 16) + 1]>>
         \o HexEncodeToString(Tail(b))

\* needle occurs in hay as a contiguous substring
Contains(hay, needle) ==
    \E i \in 0..(Len(hay) - Len(needle)) :
        \A j \in 1..Len(needle) : hay[i + j] = needle[j]

----------------------------------------------------------------------------
(* Identifier generation *)

\* The byte strings rand.Read may fill the buffer with (the code reads 24
\* bytes; the model reads one byte, of two possible values).
RandReads == {<<10>>, <<171>>}

\* secureID: the outcomes of one call, a hex identifier or an error
secureID ==
    {[id |-> HexEncodeToString(b), err |-> FALSE] : b \in RandReads}
    \cup {[id |-> <<>>, err |-> TRUE]}

----------------------------------------------------------------------------
(* HTTP responses and flash cookies *)

FlashNames == {"flash_err", "flash_success"}

\* A response: the status, the Location header (NULL when absent), the body
\* as the list of texts written into it, and the Set-Cookie headers in order
\* (value NULL: the cookie is expired).
Response(status, location, body, setCookies) ==
    [status |-> status, location |-> location, body |-> body,
     setCookies |-> setCookies]

\* badRequest: status 400 with the message as body
badRequest(err) == Response(StatusBadRequest, NULL, <<err>>, <<>>)

\* internalServerError: status 500, no body
internalServerError == Response(StatusInternalServerError, NULL, <<>>, <<>>)

\* http.Redirect after the flash cookies in setCookies were set
Redirect(url, code, setCookies) == Response(code, Some(url), <<>>, setCookies)

\* setFlash: the Set-Cookie header of a flash message
setFlash(name, msg) == <<[name |-> "flash_" \o name, value |-> Some(msg)]>>

setFlashErr(msg) == setFlash("err", msg)

setFlashSuccess(msg) == setFlash("success", msg)

\* flash without the Set-Cookie that expires the cookie it read
flashKeepsCookie(name, jar) ==
    LET n == "flash_" \o name
    IN  IF IsNull(jar[n])
        THEN [value |-> <<>>, setCookies |-> <<>>]
        ELSE [value |-> Val(jar[n]), setCookies |-> <<>>]

\* flash: the value of the request's flash cookie, or "" when the request has
\* none; a cookie that was read is expired in the response
flash(name, jar) ==
    LET n == "flash_" \o name
    IN  IF IsNull(jar[n])
        THEN [value |-> <<>>, setCookies |-> <<>>]
        ELSE [value |-> Val(jar[n]),
              setCookies |-> <<[name |-> n, value |-> NULL]>>]

\* notificationsFromRequest: both flash messages, read and expired
notificationsFromRequest(jar) ==
    LET e == flash("err", jar)
        s == flash("success", jar)
    IN  [errorMsg |-> e.value, successMsg |-> s.value,
         setCookies |-> e.setCookies \o s.setCookies]

\* The browser's cookies after it received the Set-Cookie headers
RECURSIVE ApplySetCookies(_, _)
ApplySetCookies(jar, setCookies) ==
    IF setCookies = <<>> THEN jar
    ELSE ApplySetCookies(
            [jar EXCEPT ![Head(setCookies).name] = Head(setCookies).value],
            Tail(setCookies))

\* A rendered page: status 200, the template's name and arguments as body
Render(page, args, n) ==
    Response(StatusOK, NULL, <<page>> \o args \o <<n.errorMsg, n.successMsg>>,
             n.setCookies)

\* Every text a response shows to its receiver
ResponseTexts(r) ==
    {r.body[i] : i \in 1..Len(r.body)}
    \cup (IF IsNull(r.location) THEN {} ELSE {Val(r.location)})
    \cup {Val(r.setCookies[i].value) :
            i \in {j \in 1..Len(r.setCookies) : ~IsNull(r.setCookies[j].value)}}

\* The response shows the text s (as a whole or inside a longer text)
Shows(r, s) == \E t \in ResponseTexts(r) : Contains(t, s)

----------------------------------------------------------------------------
(* The secrets table *)

Row(viewingID, managementID, cipherText, ttl, createdAt) ==
    [viewing_id |-> viewingID, management_id |-> managementID,
     cipher_text |-> Some(cipherText), ttl |-> ttl, created_at |-> createdAt,
     deleted_at |-> NULL, deletion_reason |-> NULL]

Rows(rows) == {rows[i] : i \in 1..Len(rows)}

\* The uniqueness constraints on viewing_id and on management_id
\* (the schema is not among the source files; taken from the specification)
UniqueViolation(rows, row) ==
    \E r \in Rows(rows) :
        \/ r.viewing_id = row.viewing_id
        \/ r.management_id = row.management_id

\* INSERT INTO secrets (viewing_id, management_id, cipher_text, ttl, created_at)
InsertSecret(rows, viewingID, managementID, secret, ttl, t, dbFail) ==
    LET row == Row(viewingID, managementID, secret, ttl, t)
    IN  IF dbFail \/ UniqueViolation(rows, row)
        THEN [err |-> TRUE, rows |-> rows]
        ELSE [err |-> FALSE, rows |-> Append(rows, row)]

\* The first row of a query's result: ErrNoRows when it is empty, and Scan
\* fails on a NULL that is read into a Go string
QueryRow(rows, matches, column, dbFail) ==
    LET hit == {i \in 1..Len(rows) : matches[i]}
        first == CHOOSE i \in hit : \A j \in hit : i <= j
    IN  IF dbFail THEN [err |-> "error", value |-> <<>>]
        ELSE IF hit = {} THEN [err |-> "ErrNoRows", value |-> <<>>]
        ELSE IF IsNull(rows[first][column])
             THEN [err |-> "error", value |-> <<>>]
        ELSE [err |-> "nil", value |-> Val(rows[first][column])]

\* SelectCipherText without its deleted_at IS NULL condition
SelectCipherTextOfDeletedToo(rows, viewingID, dbFail) ==
    QueryRow(rows,
             [i \in 1..Len(rows) |-> rows[i].viewing_id = viewingID],
             "cipher_text", dbFail)

\* SELECT cipher_text FROM secrets WHERE viewing_id = ? AND deleted_at IS NULL
SelectCipherText(rows, viewingID, dbFail) ==
    QueryRow(rows,
             [i \in 1..Len(rows) |->
                rows[i].viewing_id = viewingID /\ IsNull(rows[i].deleted_at)],
             "cipher_text", dbFail)

\* SelectViewingID reading column cipher_text instead of viewing_id
SelectCipherTextByManagementID(rows, managementID, dbFail) ==
    QueryRow(rows,
             [i \in 1..Len(rows) |->
                rows[i].management_id = managementID
                /\ IsNull(rows[i].deleted_at)],
             "cipher_text", dbFail)

\* SELECT viewing_id FROM secrets WHERE management_id = ? AND deleted_at IS NULL
SelectViewingID(rows, managementID, dbFail) ==
    LET ids == [i \in 1..Len(rows) |->
                   [viewing_id |-> Some(rows[i].viewing_id)]]
    IN  QueryRow(ids,
                 [i \in 1..Len(rows) |->
                    rows[i].management_id = managementID
                    /\ IsNull(rows[i].deleted_at)],
                 "viewing_id", dbFail)

\* UpdateDeleted without cipher_text = NULL: the row is only flagged
UpdateDeletedKeepsCipherText(rows, managementID, t, dbFail) ==
    IF dbFail THEN [err |-> TRUE, rows |-> rows]
    ELSE [err |-> FALSE,
          rows |-> [i \in 1..Len(rows) |->
                      IF rows[i].management_id = managementID
                      THEN [rows[i] EXCEPT
                              !.deleted_at = Some(t),
                              !.deletion_reason = Some(deletionReasonUserDeleted)]
                      ELSE rows[i]]]

\* UpdateDeleted without deletion_reason = ?: the reason is not written
UpdateDeletedNoReason(rows, managementID, t, dbFail) ==
    IF dbFail THEN [err |-> TRUE, rows |-> rows]
    ELSE [err |-> FALSE,
          rows |-> [i \in 1..Len(rows) |->
                      IF rows[i].management_id = managementID
                      THEN [rows[i] EXCEPT
                              !.deleted_at = Some(t),
                              !.cipher_text = NULL]
                      ELSE rows[i]]]

\* UpdateDeleted with WHERE management_id = ? OR viewing_id = ?
UpdateDeletedByEitherID(rows, managementID, t, dbFail) ==
    IF dbFail THEN [err |-> TRUE, rows |-> rows]
    ELSE [err |-> FALSE,
          rows |-> [i \in 1..Len(rows) |->
                      IF \/ rows[i].management_id = managementID
                         \/ rows[i].viewing_id = managementID
                      THEN [rows[i] EXCEPT
                              !.deleted_at = Some(t),
                              !.deletion_reason = Some(deletionReasonUserDeleted),
                              !.cipher_text = NULL]
                      ELSE rows[i]]]

\* UpdateDeleted without its WHERE clause: every row is deleted
UpdateDeletedEveryRow(rows, managementID, t, dbFail) ==
    IF dbFail THEN [err |-> TRUE, rows |-> rows]
    ELSE [err |-> FALSE,
          rows |-> [i \in 1..Len(rows) |->
                      [rows[i] EXCEPT
                          !.deleted_at = Some(t),
                          !.deletion_reason = Some(deletionReasonUserDeleted),
                          !.cipher_text = NULL]]]

\* UPDATE secrets SET deleted_at = ?, deletion_reason = ?, cipher_text = NULL
\* WHERE management_id = ?
UpdateDeleted(rows, managementID, t, dbFail) ==
    IF dbFail THEN [err |-> TRUE, rows |-> rows]
    ELSE [err |-> FALSE,
          rows |-> [i \in 1..Len(rows) |->
                      IF rows[i].management_id = managementID
                      THEN [rows[i] EXCEPT
                              !.deleted_at = Some(t),
                              !.deletion_reason = Some(deletionReasonUserDeleted),
                              !.cipher_text = NULL]
                      ELSE rows[i]]]

----------------------------------------------------------------------------
(* Requests *)

Form(encryptedSecret, ttl) ==
    [parseErr |-> FALSE, encryptedSecret |-> encryptedSecret, ttl |-> ttl]

\* The forms explored: the two fields as r.Form.Get returns them, or a body
\* ParseForm cannot parse
Forms ==
    { Form(<<"a", ".", "b", ".", "c">>, <<"3", "6", "0", "0">>),
      Form(<<".", ".">>, <<"-", "1">>),
      Form(<<"a", "b", "c", "d", "e", "f">>, <<"3", "6", "0", "0">>),
      Form(<<"a", ".", "b", ".", "c", ".", "d">>, <<"6", "0">>),
      Form(<<"a", ".", "b", ".", "c">>, <<"1", "h">>),
      [parseErr |-> TRUE, encryptedSecret |-> <<>>, ttl |-> <<>>] }

\* The identifiers a client puts into a request path: those secureID can
\* issue, whether or not a record holds them yet
IssuableIDs == {o.id : o \in {x \in secureID : ~x.err}}
RequestIDs == IssuableIDs

----------------------------------------------------------------------------
(* The handlers: the response, the rows afterwards, and what the handler did *)

Outcome(resp, rows, draws, execs) ==
    [resp |-> resp, rows |-> rows, draws |-> draws, execs |-> execs]

\* ValidateForm asking for at least two separators instead of exactly two
ValidateFormAtLeastTwo(form) ==
    IF form.parseErr THEN Some(MsgParseForm)
    ELSE IF Count(form.encryptedSecret, ".") < 2 THEN Some(MsgSecretFormat)
    ELSE IF Atoi(form.ttl).err THEN Some(MsgParseTTL)
    ELSE NULL

\* handleCreateSecret, lines 69-87: the message of the bad request, or NULL
\* when the form passes
ValidateForm(form) ==
    IF form.parseErr THEN Some(MsgParseForm)
    ELSE IF Count(form.encryptedSecret, ".") # 2 THEN Some(MsgSecretFormat)
    ELSE IF Atoi(form.ttl).err THEN Some(MsgParseTTL)
    ELSE NULL

\* handleCreateSecret without the return after the failed second draw: the
\* INSERT runs with the empty management id
CreateSecretNoReturn(rows, form, v, m, t, dbFail) ==
    LET bad == ValidateForm(form)
        ins == InsertSecret(rows, v.id, m.id, form.encryptedSecret,
                            Atoi(form.ttl).val, t, dbFail)
    IN  IF ~IsNull(bad)
        THEN Outcome(badRequest(Val(bad)), rows, 0, 0)
        ELSE IF v.err
        THEN Outcome(internalServerError, rows, 1, 0)
        ELSE IF m.err
        THEN Outcome(internalServerError, ins.rows, 2, 1)
        ELSE IF ins.err
        THEN Outcome(internalServerError, rows, 2, 1)
        ELSE Outcome(Redirect(<<"/manage-secret/">> \o m.id, StatusCreated, <<>>),
                     ins.rows, 2, 1)

\* handleCreateSecret, with the outcomes v and m of its two secureID calls
\* and the clock reading t
CreateSecret(rows, form, v, m, t, dbFail) ==
    LET bad == ValidateForm(form)
        ins == InsertSecret(rows, v.id, m.id, form.encryptedSecret,
                            Atoi(form.ttl).val, t, dbFail)
    IN  IF ~IsNull(bad)
        THEN Outcome(badRequest(Val(bad)), rows, 0, 0)
        ELSE IF v.err
        THEN Outcome(internalServerError, rows, 1, 0)
        ELSE IF m.err
        THEN Outcome(internalServerError, rows, 2, 0)
        ELSE IF ins.err
        THEN Outcome(internalServerError, rows, 2, 1)
        ELSE Outcome(Redirect(<<"/manage-secret/">> \o m.id, StatusCreated, <<>>),
                     ins.rows, 2, 1)

\* handleGetSecret as a view-once page: the row that was shown is deleted
GetSecretOnce(rows, viewingID, jar, dbFail) ==
    LET q == SelectCipherText(rows, viewingID, dbFail)
    IN  IF q.err = "ErrNoRows"
        THEN Outcome(Redirect(<<"/">>, StatusSeeOther, setFlashErr(MsgNotFound)),
                     rows, 0, 1)
        ELSE IF q.err # "nil"
        THEN Outcome(Redirect(<<"/oops">>, StatusSeeOther, <<>>), rows, 0, 1)
        ELSE Outcome(Render(<<"pageViewSecret">>, <<q.value>>,
                            notificationsFromRequest(jar)),
                     [i \in 1..Len(rows) |->
                        IF rows[i].viewing_id = viewingID
                        THEN [rows[i] EXCEPT
                                !.deleted_at = Some(0),
                                !.deletion_reason = Some(deletionReasonUserDeleted),
                                !.cipher_text = NULL]
                        ELSE rows[i]],
                     0, 2)

\* handleGetSecret
GetSecret(rows, viewingID, jar, dbFail) ==
    LET q == SelectCipherText(rows, viewingID, dbFail)
    IN  IF q.err = "ErrNoRows"
        THEN Outcome(Redirect(<<"/">>, StatusSeeOther, setFlashErr(MsgNotFound)),
                     rows, 0, 1)
        ELSE IF q.err # "nil"
        THEN Outcome(Redirect(<<"/oops">>, StatusSeeOther, <<>>), rows, 0, 1)
        ELSE Outcome(Render(<<"pageViewSecret">>, <<q.value>>,
                            notificationsFromRequest(jar)),
                     rows, 0, 1)

\* handleManageSecret
ManageSecret(rows, managementID, jar, dbFail) ==
    LET q == SelectViewingID(rows, managementID, dbFail)
    IN  IF q.err = "ErrNoRows"
        THEN Outcome(Redirect(<<"/">>, StatusSeeOther, setFlashErr(MsgNotFound)),
                     rows, 0, 1)
        ELSE IF q.err # "nil"
        THEN Outcome(Redirect(<<"/oops">>, StatusSeeOther, <<>>), rows, 0, 1)
        ELSE Outcome(Render(<<"pageManageSecret">>,
                            << managementID,
                               baseURL \o <<"/secret/">> \o q.value,
                               baseURL \o <<"/manage-secret/">> \o managementID
                                       \o <<"/delete">> >>,
                            notificationsFromRequest(jar)),
                     rows, 0, 1)

\* handleDeleteSecret telling the client when the UPDATE matched no row
DeleteSecretReportsMissing(rows, managementID, t, dbFail) ==
    LET u == UpdateDeleted(rows, managementID, t, dbFail)
    IN  IF u.err
        THEN Outcome(Redirect(<<"/oops">>, StatusSeeOther, <<>>), rows, 0, 1)
        ELSE IF \A r \in Rows(rows) : r.management_id # managementID
        THEN Outcome(Redirect(<<"/">>, StatusSeeOther, setFlashErr(MsgNotFound)),
                     rows, 0, 1)
        ELSE Outcome(Redirect(<<"/">>, StatusSeeOther, setFlashSuccess(MsgDeleted)),
                     u.rows, 0, 1)

\* handleDeleteSecret, with the clock reading t
DeleteSecret(rows, managementID, t, dbFail) ==
    LET u == UpdateDeleted(rows, managementID, t, dbFail)
    IN  IF u.err
        THEN Outcome(Redirect(<<"/oops">>, StatusSeeOther, <<>>), rows, 0, 1)
        ELSE Outcome(Redirect(<<"/">>, StatusSeeOther, setFlashSuccess(MsgDeleted)),
                     u.rows, 0, 1)

\* handleGetIndex
GetIndex(jar) ==
    Outcome(Render(<<"pageIndex">>, <<>>, notificationsFromRequest(jar)),
            <<>>, 0, 0)

\* The identifier in the path of a URL that mapRoutes routes by prefix
\* (r.PathValue), NULL when the URL is not of that route
PathValue(url, prefix) ==
    LET i == CHOOSE k \in 1..Len(url) : url[k] = prefix
    IN  IF \E k \in 1..Len(url) : url[k] = prefix
        THEN Some(SubSeq(url, i + 1, Len(url)))
        ELSE NULL

----------------------------------------------------------------------------
(* The state machine *)

NoForm == [parseErr |-> FALSE, encryptedSecret |-> <<>>, ttl |-> <<>>]

NoID == [id |-> <<>>, err |-> TRUE]

Served(op, id, form, out) ==
    [op |-> op, id |-> id, form |-> form, resp |-> out.resp,
     draws |-> out.draws, execs |-> out.execs]

\* A goroutine of the server that serves no request
Idle ==
    [pc |-> "idle", op |-> "none", id |-> <<>>, form |-> NoForm,
     v |-> NoID, m |-> NoID, t |-> 0, resp |-> Response(0, NULL, <<>>, <<>>),
     overlap |-> {}]

Init ==
    /\ secrets = <<>>
    /\ now = 0
    /\ cookies = [n \in FlashNames |-> NULL]
    /\ last = Served("none", <<>>, NoForm,
                     Outcome(Response(0, NULL, <<>>, <<>>), <<>>, 0, 0))
    /\ created = <<>>
    /\ deleteDone = {}
    /\ procs = [p \in 1..MaxProcs |-> Idle]

\* time passes
Tick ==
    /\ now < MaxTime
    /\ now' = now + 1
    /\ UNCHANGED <<secrets, cookies, last, created, deleteDone, procs>>

\* POST /secret
handleCreateSecret(form, v, m, dbFail) ==
    /\ Len(secrets) < MaxSecrets
    /\ \E out \in {CreateSecret(secrets, form, v, m, now, dbFail)} :
        /\ secrets' = out.rows
        /\ cookies' = ApplySetCookies(cookies, out.resp.setCookies)
        /\ last' = Served("Create", <<>>, form, out)
        /\ created' =
             IF out.resp.status = StatusCreated
             THEN Append(created,
                         [management_id |->
                             Val(PathValue(Val(out.resp.location), "/manage-secret/")),
                          envelope |-> form.encryptedSecret,
                          ttl |-> form.ttl])
             ELSE created
        /\ UNCHANGED <<now, deleteDone, procs>>

\* GET /secret/{viewingID}
handleGetSecret(viewingID, dbFail) ==
    \E out \in {GetSecret(secrets, viewingID, cookies, dbFail)} :
        /\ secrets' = out.rows
        /\ cookies' = ApplySetCookies(cookies, out.resp.setCookies)
        /\ last' = Served("View", viewingID, NoForm, out)
        /\ UNCHANGED <<now, created, deleteDone, procs>>

\* GET /manage-secret/{managementID}
handleManageSecret(managementID, dbFail) ==
    \E out \in {ManageSecret(secrets, managementID, cookies, dbFail)} :
        /\ secrets' = out.rows
        /\ cookies' = ApplySetCookies(cookies, out.resp.setCookies)
        /\ last' = Served("Manage", managementID, NoForm, out)
        /\ UNCHANGED <<now, created, deleteDone, procs>>

\* POST /manage-secret/{managementID}/delete
handleDeleteSecret(managementID, dbFail) ==
    \E out \in {DeleteSecret(secrets, managementID, now, dbFail)} :
        /\ secrets' = out.rows
        /\ cookies' = ApplySetCookies(cookies, out.resp.setCookies)
        /\ last' = Served("Delete", managementID, NoForm, out)
        /\ deleteDone' =
             IF /\ out.resp.location = Some(<<"/">>)
                /\ \E r \in Rows(secrets) : r.management_id = managementID
             THEN deleteDone \cup {managementID}
             ELSE deleteDone
        /\ UNCHANGED <<now, created, procs>>

\* GET /
handleGetIndex ==
    \E out \in {GetIndex(cookies)} :
        /\ cookies' = ApplySetCookies(cookies, out.resp.setCookies)
        /\ last' = Served("Index", <<>>, NoForm, out)
        /\ UNCHANGED <<secrets, now, created, deleteDone, procs>>

\* The inputs a run of handleCreateSecret reads: no identifier is drawn for a
\* bad form, no second one after a failed draw, and no INSERT runs without both
CreateRuns ==
    {<<form, NoID, NoID, FALSE>> : form \in {f \in Forms : ~IsNull(ValidateForm(f))}}
    \cup {<<form, v, m, dbFail>> :
            form \in {f \in Forms : IsNull(ValidateForm(f))},
            v \in secureID,
            m \in secureID,
            dbFail \in BOOLEAN}

Reads(run) ==
    /\ run[2].err => run[3] = NoID
    /\ run[3].err => ~run[4]

Next ==
    \/ Tick
    \/ \E run \in {r \in CreateRuns : Reads(r)} :
          handleCreateSecret(run[1], run[2], run[3], run[4])
    \/ \E viewingID \in RequestIDs, dbFail \in BOOLEAN :
          handleGetSecret(viewingID, dbFail)
    \/ \E managementID \in RequestIDs, dbFail \in BOOLEAN :
          handleManageSecret(managementID, dbFail)
    \/ \E managementID \in RequestIDs, dbFail \in BOOLEAN :
          handleDeleteSecret(managementID, dbFail)
    \/ handleGetIndex

Spec == Init /\ [][Next]_vars

----------------------------------------------------------------------------
(* Vocabulary of the properties *)

Requests == RequestIDs \X BOOLEAN

Active(r) == IsNull(r.deleted_at)

\* The not-found outcome: the error notification and a redirect to the
\* landing page
IsNotFound(resp) ==
    /\ resp.status = StatusSeeOther
    /\ resp.location = Some(<<"/">>)
    /\ resp.body = <<>>
    /\ resp.setCookies = <<[name |-> "flash_err", value |-> Some(MsgNotFound)]>>

\* The success outcome of Delete: the success notification and a redirect to
\* the landing page
IsDeleteSuccess(resp) ==
    /\ resp.status = StatusSeeOther
    /\ resp.location = Some(<<"/">>)
    /\ resp.setCookies = <<[name |-> "flash_success", value |-> Some(MsgDeleted)]>>

\* Every envelope a Create has stored
StoredEnvelopes == {created[i].envelope : i \in 1..Len(created)}

----------------------------------------------------------------------------
(* C1 *)

\* C1: once a Delete with a record's management_id has succeeded, the stored
\* cipher_text of the record is NULL, every View with the record's viewing_id
\* whose query runs yields the not-found outcome, and no View of it (served
\* or still to come) shows a page.
C1_DeletedIsGone ==
    \A r \in Rows(secrets) :
        r.management_id \in deleteDone =>
            /\ r.cipher_text = NULL
            /\ IsNotFound(GetSecret(secrets, r.viewing_id, cookies, FALSE).resp)
            /\ GetSecret(secrets, r.viewing_id, cookies, TRUE).resp.status # StatusOK
            /\ (last.op = "View" /\ last.id = r.viewing_id) =>
                    /\ last.resp.status # StatusOK
                    /\ IsNotFound(last.resp) \/ last.resp.location = Some(<<"/oops">>)

\* A View of a deleted record was served and answered not-found
C1_Witness ==
    \E r \in Rows(secrets) :
        /\ r.management_id \in deleteDone
        /\ last.op = "View"
        /\ last.id = r.viewing_id
        /\ IsNotFound(last.resp)

----------------------------------------------------------------------------
(* C2 *)

\* C2: no response of Manage or of Delete, for any management_id and whether
\* or not the database call fails, shows an envelope that was ever stored; a
\* served response that shows one is the response of a View with the
\* viewing_id of an active record holding that envelope.
C2_OnlyViewYieldsCipherText ==
    /\ \A q \in Requests, e \in StoredEnvelopes :
          /\ ~Shows(ManageSecret(secrets, q[1], cookies, q[2]).resp, e)
          /\ ~Shows(DeleteSecret(secrets, q[1], now, q[2]).resp, e)
    /\ \A e \in StoredEnvelopes :
          Shows(last.resp, e) =>
              /\ last.op = "View"
              /\ \E r \in Rows(secrets) :
                    /\ r.viewing_id = last.id
                    /\ Active(r)
                    /\ r.cipher_text = Some(e)

\* A Manage of an active record rendered its page, and so did a Delete succeed
C2_Witness ==
    /\ last.op = "Manage"
    /\ last.resp.status = StatusOK
    /\ \E r \in Rows(secrets) : r.management_id = last.id /\ Active(r)
    /\ deleteDone # {}

----------------------------------------------------------------------------
(* C4 *)

\* C4: in every state, a View of an identifier no record has as viewing_id and
\* a View of a deleted record's viewing_id have the same outcome (the same
\* response with the same notification, the rows unchanged), and so have a
\* Manage of an identifier no record has as management_id and a Manage of a
\* deleted record's management_id.
C4_ExistenceHiding ==
    \A r \in Rows(secrets), x \in RequestIDs :
        ~Active(r) =>
            /\ (\A o \in Rows(secrets) : o.viewing_id # x) =>
                  /\ GetSecret(secrets, x, cookies, FALSE)
                        = GetSecret(secrets, r.viewing_id, cookies, FALSE)
                  /\ GetSecret(secrets, r.viewing_id, cookies, FALSE).rows = secrets
            /\ (\A o \in Rows(secrets) : o.management_id # x) =>
                  /\ ManageSecret(secrets, x, cookies, FALSE)
                        = ManageSecret(secrets, r.management_id, cookies, FALSE)
                  /\ ManageSecret(secrets, r.management_id, cookies, FALSE).rows
                        = secrets

\* A View of a deleted record was served while some identifier is no record's
\* viewing_id
C4_Witness ==
    \E r \in Rows(secrets), x \in RequestIDs :
        /\ ~Active(r)
        /\ \A o \in Rows(secrets) : o.viewing_id # x
        /\ last.op = "View"
        /\ last.id = r.viewing_id
        /\ last.resp = GetSecret(secrets, x, cookies, FALSE).resp

----------------------------------------------------------------------------
(* C3 *)

\* No response of a View, for any viewing_id and whether or not the query
\* fails, shows the management_id of a record
C3_ViewShowsNoManagementID ==
    /\ \A q \in Requests, r \in Rows(secrets) :
          ~Shows(GetSecret(secrets, q[1], cookies, q[2]).resp, r.management_id)
    /\ last.op = "View" =>
          \A r \in Rows(secrets) : ~Shows(last.resp, r.management_id)

\* C3: the response of a View never shows the management_id of a record, and
\* a Delete that is given the viewing_id of a record does not delete that
\* record.
C3_ViewingIDNeverDeletes ==
    /\ C3_ViewShowsNoManagementID
    /\ \A i \in 1..Len(secrets) :
          Active(secrets[i]) =>
              DeleteSecret(secrets, secrets[i].viewing_id, now, FALSE).rows[i]
                  = secrets[i]

----------------------------------------------------------------------------
(* C5 *)

\* C5: a Delete of a management_id on which a Delete has succeeded before
\* succeeds again and leaves every stored row as the first Delete left it.
C5_DeleteIdempotent ==
    [][\A m \in deleteDone :
          handleDeleteSecret(m, FALSE) =>
              /\ IsDeleteSuccess(last'.resp)
              /\ secrets' = secrets]_vars

----------------------------------------------------------------------------
(* C6 *)

\* No two rows share a viewing_id and no two share a management_id
C6_UniquePerColumn ==
    \A i, j \in 1..Len(secrets) :
        i # j => /\ secrets[i].viewing_id # secrets[j].viewing_id
                 /\ secrets[i].management_id # secrets[j].management_id

\* C6: no two rows share a viewing_id, no two share a management_id, and the
\* viewing_id of a row differs from the management_id of every row, its own
\* included.
C6_IdentifiersUnique ==
    /\ C6_UniquePerColumn
    /\ \A i, j \in 1..Len(secrets) :
          secrets[i].viewing_id # secrets[j].management_id

----------------------------------------------------------------------------
(* C7 *)

\* C7: for every successful Create, with envelope e and redirect to
\* management_id m, as long as no Delete of m has succeeded: a Manage of m
\* renders the page with a viewing URL, and a View of the identifier in that
\* URL renders exactly e, whatever was done to other records in between.
C7_RoundTrip ==
    \A i \in 1..Len(created) :
        LET c == created[i]
            man == ManageSecret(secrets, c.management_id, cookies, FALSE).resp
            v == PathValue(man.body[3], "/secret/")
            view == GetSecret(secrets, Val(v), cookies, FALSE).resp
        IN  c.management_id \notin deleteDone =>
                /\ man.status = StatusOK
                /\ man.body[1] = <<"pageManageSecret">>
                /\ ~IsNull(v)
                /\ view.status = StatusOK
                /\ view.body[1] = <<"pageViewSecret">>
                /\ view.body[2] = c.envelope
                /\ (last.op = "View" /\ last.id = Val(v)
                        /\ last.resp.status = StatusOK) =>
                      last.resp.body[2] = c.envelope

\* A View served the envelope of one record after another record was deleted
C7_Witness ==
    \E i, j \in 1..Len(created) :
        /\ created[i].management_id \notin deleteDone
        /\ created[j].management_id \in deleteDone
        /\ created[i].envelope # created[j].envelope
        /\ last.op = "View"
        /\ last.resp.status = StatusOK
        /\ last.resp.body[2] = created[i].envelope
        /\ \E r \in Rows(secrets) :
              /\ r.management_id = created[i].management_id
              /\ r.viewing_id = last.id

----------------------------------------------------------------------------
(* C8 *)

\* e is segment.segment.segment: two separators and no third
ThreeSegments(e) ==
    \E i, j \in 1..Len(e) :
        /\ i < j
        /\ e[i] = "."
        /\ e[j] = "."
        /\ \A k \in 1..Len(e) \ {i, j} : e[k] # "."

\* s is a decimal integer, with or without a sign
IsInteger(s) ==
    LET ds == IF s # <<>> /\ s[1] \in {"+", "-"} THEN Tail(s) ELSE s
    IN  /\ ds # <<>>
        /\ \A k \in 1..Len(ds) :
              ds[k] \in {"0", "1", "2", "3", "4", "5", "6", "7", "8", "9"}

\* C8: a Create is answered "created" only for an envelope of the shape
\* segment.segment.segment; for a parsed form with any other envelope, or
\* with a ttl that is no integer, it answers bad request with a message,
\* draws no identifier, runs no INSERT and leaves the rows as they are.
C8_MalformedRejected ==
    /\ \A form \in Forms, v \in secureID \ {NoID}, m \in secureID \ {NoID} :
          LET out == CreateSecret(secrets, form, v, m, now, FALSE)
          IN  /\ out.resp.status = StatusCreated =>
                    ThreeSegments(form.encryptedSecret)
              /\ (/\ ~form.parseErr
                  /\ ~ThreeSegments(form.encryptedSecret) \/ ~IsInteger(form.ttl)) =>
                    /\ out.resp.status = StatusBadRequest
                    /\ out.resp.body \in {<<MsgSecretFormat>>, <<MsgParseTTL>>}
                    /\ out.draws = 0
                    /\ out.execs = 0
                    /\ out.rows = secrets
    /\ (/\ last.op = "Create"
        /\ ~last.form.parseErr
        /\ ~ThreeSegments(last.form.encryptedSecret) \/ ~IsInteger(last.form.ttl)) =>
          /\ last.resp.status = StatusBadRequest
          /\ last.draws = 0
          /\ last.execs = 0

\* The envelope abcdef was rejected while the table held a row, and the row
\* count is that of the successful creates
C8_Witness ==
    /\ last.op = "Create"
    /\ last.form.encryptedSecret = <<"a", "b", "c", "d", "e", "f">>
    /\ last.resp.status = StatusBadRequest
    /\ Len(secrets) = 1
    /\ Len(created) = 1

----------------------------------------------------------------------------
(* C9 *)

\* C9: when the INSERT of a Create is rejected for a duplicate identifier,
\* the Create draws fresh identifiers and runs the INSERT again: it ends
\* created, or as an internal error only after more than one attempt.
C9_RetriesOnDuplicate ==
    \A form \in {f \in Forms : IsNull(ValidateForm(f))},
       v \in secureID \ {NoID}, m \in secureID \ {NoID} :
        LET out == CreateSecret(secrets, form, v, m, now, FALSE)
        IN  UniqueViolation(secrets, Row(v.id, m.id, form.encryptedSecret,
                                         Atoi(form.ttl).val, now)) =>
                /\ out.draws > 2
                /\ out.execs > 1

----------------------------------------------------------------------------
(* C10 *)

\* C10: a Create whose ttl is an integer outside the accepted durations (zero
\* and the negative numbers are outside any set of durations) is answered
\* bad request and stores no row.
C10_TTLOutsideSetRejected ==
    /\ \A r \in Rows(secrets) : r.ttl > 0
    /\ (/\ last.op = "Create"
        /\ IsInteger(last.form.ttl)
        /\ Atoi(last.form.ttl).val <= 0) =>
          last.resp.status = StatusBadRequest

----------------------------------------------------------------------------
(* C11 *)

\* A row that is deleted stays deleted and its cipher_text stays NULL,
\* whatever request is served next
C11_DeletedStaysDeleted ==
    [][\A i \in 1..Len(secrets) :
          ~Active(secrets[i]) =>
              /\ Len(secrets') >= i
              /\ ~Active(secrets'[i])
              /\ IsNull(secrets'[i].cipher_text)]_vars

\* C11: deleted is terminal: once the deleted_at of a row is set, no request
\* makes the row active again, gives it a cipher_text again, or changes any
\* of its fields again.
C11_DeletedIsTerminal ==
    [][\A i \in 1..Len(secrets) :
          ~Active(secrets[i]) =>
              /\ Len(secrets') >= i
              /\ secrets'[i] = secrets[i]]_vars

----------------------------------------------------------------------------
(* Requests served at the same time *)

\* net/http serves every request in a goroutine of its own. A handler that
\* writes first reads its inputs and the clock (the arguments of Exec are
\* evaluated before the call); the database then runs the one statement of
\* the handler in one step, and the handler answers. Between the two steps
\* the clock may tick and other requests may begin and end.

ValidForms == {f \in Forms : IsNull(ValidateForm(f))}

InFlight == {p \in 1..MaxProcs : procs[p].pc = "exec"}

\* The request p begins: the requests in flight are served together with it
Begun(p, req) ==
    [q \in 1..MaxProcs |->
        IF q = p THEN [req EXCEPT !.overlap = InFlight \ {p}]
        ELSE IF q \in InFlight
             THEN [procs[q] EXCEPT !.overlap = @ \cup {p}]
             ELSE [procs[q] EXCEPT !.overlap = @ \ {p}]]

\* POST /secret with a well-formed form, up to the call of Exec: both
\* identifiers are drawn and the clock is read
BeginCreate(p, form, v, m) ==
    /\ procs[p].pc # "exec"
    /\ Len(secrets) + Cardinality({q \in InFlight : procs[q].op = "Create"})
         < MaxSecrets
    /\ procs' = Begun(p, [pc |-> "exec", op |-> "Create", id |-> <<>>,
                          form |-> form, v |-> v, m |-> m, t |-> now,
                          resp |-> Response(0, NULL, <<>>, <<>>),
                          overlap |-> {}])
    /\ UNCHANGED <<secrets, now, cookies, last, created, deleteDone>>

\* POST /secret from the INSERT on
EndCreate(p, dbFail) ==
    /\ procs[p].pc = "exec"
    /\ procs[p].op = "Create"
    /\ \E out \in {CreateSecret(secrets, procs[p].form, procs[p].v,
                                procs[p].m, procs[p].t, dbFail)} :
          /\ secrets' = out.rows
          /\ procs' = [procs EXCEPT ![p].pc = "done", ![p].resp = out.resp]
    /\ UNCHANGED <<now, cookies, last, created, deleteDone>>

\* POST /manage-secret/{managementID}/delete up to the call of Exec: the
\* clock is read
BeginDelete(p, managementID) ==
    /\ procs[p].pc # "exec"
    /\ procs' = Begun(p, [pc |-> "exec", op |-> "Delete",
                          id |-> managementID, form |-> NoForm,
                          v |-> NoID, m |-> NoID, t |-> now,
                          resp |-> Response(0, NULL, <<>>, <<>>),
                          overlap |-> {}])
    /\ UNCHANGED <<secrets, now, cookies, last, created, deleteDone>>

\* POST /manage-secret/{managementID}/delete from the UPDATE on
EndDelete(p, dbFail) ==
    /\ procs[p].pc = "exec"
    /\ procs[p].op = "Delete"
    /\ \E out \in {DeleteSecret(secrets, procs[p].id, procs[p].t, dbFail)} :
          /\ secrets' = out.rows
          /\ procs' = [procs EXCEPT ![p].pc = "done", ![p].resp = out.resp]
    /\ UNCHANGED <<now, cookies, last, created, deleteDone>>

NextConcurrent ==
    \/ Tick
    \/ \E p \in 1..MaxProcs, form \in ValidForms,
          v \in secureID \ {NoID}, m \in secureID \ {NoID} :
          BeginCreate(p, form, v, m)
    \/ \E p \in 1..MaxProcs, dbFail \in BOOLEAN : EndCreate(p, dbFail)
    \/ \E p \in 1..MaxProcs, managementID \in RequestIDs :
          BeginDelete(p, managementID)
    \/ \E p \in 1..MaxProcs, dbFail \in BOOLEAN : EndDelete(p, dbFail)

SpecConcurrent == Init /\ [][NextConcurrent]_vars

\* The request q of the same kind ran together with the request p in flight
Concurrent(p, q) ==
    /\ q # p
    /\ procs[q].op = procs[p].op
    /\ \/ q \in InFlight
       \/ procs[q].pc = "done" /\ q \in procs[p].overlap

----------------------------------------------------------------------------
(* C12 *)

\* C12: of two Delete requests for one management_id served at the same
\* time, each one ends with the success redirect and leaves the record
\* deleted (deleted_at and deletion_reason set, cipher_text NULL), and the
\* one that reaches the store later leaves the deleted_at and the
\* deletion_reason recorded by the earlier one as they are.
C12_ConcurrentDeleteAppliedOnce ==
    [][\A p \in 1..MaxProcs :
          (/\ EndDelete(p, FALSE)
           /\ \E q \in 1..MaxProcs :
                 Concurrent(p, q) /\ procs[q].id = procs[p].id) =>
             /\ IsDeleteSuccess(procs'[p].resp)
             /\ Len(secrets') = Len(secrets)
             /\ \A i \in 1..Len(secrets) :
                   secrets[i].management_id = procs[p].id =>
                      /\ ~IsNull(secrets'[i].deleted_at)
                      /\ ~IsNull(secrets'[i].deletion_reason)
                      /\ IsNull(secrets'[i].cipher_text)
                      /\ ~Active(secrets[i]) =>
                            /\ secrets'[i].deleted_at = secrets[i].deleted_at
                            /\ secrets'[i].deletion_reason =
                                 secrets[i].deletion_reason]_vars

----------------------------------------------------------------------------
(* C13 *)

\* The two identifiers of a row
IDPair(r) == {r.viewing_id, r.management_id}

\* C13: of well-formed Create requests served at the same time, each one the
\* store does not fail ends created, redirecting to the management_id it
\* drew, never with an error for an identifier another request holds, and
\* the identifier pairs of the stored rows are pairwise disjoint.
C13_ConcurrentCreatesAllCreated ==
    [][\A p \in 1..MaxProcs :
          (/\ EndCreate(p, FALSE)
           /\ \E q \in 1..MaxProcs : Concurrent(p, q)) =>
             /\ procs'[p].resp.status = StatusCreated
             /\ procs'[p].resp.location =
                  Some(<<"/manage-secret/">> \o procs[p].m.id)
             /\ \A i, j \in 1..Len(secrets') :
                   i # j => IDPair(secrets'[i]) \cap IDPair(secrets'[j]) = {}
      ]_vars

----------------------------------------------------------------------------
(* C14 *)

\* The row the last request inserted, after a Create that ended created
Persisted == secrets[Len(secrets)]

\* A Create that ends created redirects to /manage-secret/ followed by the
\* management_id of the row it inserted, and its response shows the
\* viewing_id of that row only when the two identifiers are the same text
C14_CreatedRedirect ==
    (last.op = "Create" /\ last.resp.status = StatusCreated) =>
        /\ Len(secrets) > 0
        /\ last.resp.location =
             Some(<<"/manage-secret/">> \o Persisted.management_id)
        /\ last.resp.body = <<>>
        /\ Shows(last.resp, Persisted.viewing_id) =>
              Persisted.viewing_id = Persisted.management_id

\* C14: a Create that ends created answers 201 with a location built from
\* the management_id of the row it inserted, and that response does not
\* contain the viewing_id of the row; a response shows the viewing_id of a
\* row only when it answers a Manage with the management_id of that row.
C14_CreateHidesViewingID ==
    /\ (last.op = "Create" /\ last.resp.status = StatusCreated) =>
          /\ Len(secrets) > 0
          /\ last.resp.location =
               Some(<<"/manage-secret/">> \o Persisted.management_id)
          /\ ~Shows(last.resp, Persisted.viewing_id)
    /\ \A r \in Rows(secrets) :
          Shows(last.resp, r.viewing_id) =>
              last.op = "Manage" /\ last.id = r.management_id

----------------------------------------------------------------------------
(* C15 *)

NoRowManagedBy(rows, managementID) ==
    \A r \in Rows(rows) : r.management_id # managementID

\* C15: a Delete with a management_id no row has, when the store does not
\* fail, answers exactly as the Delete of an active record does (the success
\* notification and the redirect to the landing page) and leaves every row
\* as it is.
C15_DeleteOfUnknownSucceeds ==
    /\ \A x \in RequestIDs :
          NoRowManagedBy(secrets, x) =>
              LET out == DeleteSecret(secrets, x, now, FALSE)
              IN  /\ IsDeleteSuccess(out.resp)
                  /\ out.rows = secrets
                  /\ \A r \in Rows(secrets) :
                        Active(r) =>
                            DeleteSecret(secrets, r.management_id, now,
                                         FALSE).resp = out.resp
    /\ (/\ last.op = "Delete"
        /\ NoRowManagedBy(secrets, last.id)
        /\ last.resp.location # Some(<<"/oops">>)) =>
          IsDeleteSuccess(last.resp)

\* A Delete of a management_id no row has was answered with success while
\* an active record is stored
C15_Witness ==
    /\ last.op = "Delete"
    /\ NoRowManagedBy(secrets, last.id)
    /\ IsDeleteSuccess(last.resp)
    /\ \E r \in Rows(secrets) : Active(r)

----------------------------------------------------------------------------
(* C16 *)

\* C16: in every stored row, deleted_at is NULL, deletion_reason is NULL and
\* cipher_text is not NULL either all three (the row is active) or none of
\* them (the row is deleted); so the View of a row whose deleted_at is NULL
\* finds a cipher_text and renders the page.
C16_RecordConsistent ==
    /\ \A r \in Rows(secrets) :
          \/ /\ IsNull(r.deleted_at)
             /\ IsNull(r.deletion_reason)
             /\ ~IsNull(r.cipher_text)
          \/ /\ ~IsNull(r.deleted_at)
             /\ ~IsNull(r.deletion_reason)
             /\ IsNull(r.cipher_text)
    /\ \A r \in Rows(secrets) :
          Active(r) =>
              GetSecret(secrets, r.viewing_id, cookies, FALSE).resp.status
                  = StatusOK

\* A Delete has just deleted a row while another row is active
C16_Witness ==
    /\ last.op = "Delete"
    /\ \E r \in Rows(secrets) :
          r.management_id = last.id /\ ~IsNull(r.deletion_reason)
    /\ \E r \in Rows(secrets) : Active(r)

----------------------------------------------------------------------------
(* C17 *)

\* C17: a View and a Manage change no field of any stored row, whether a row
\* is found or not; and after either of them the View of every active row
\* still renders the cipher_text the row held before (so does the View just
\* served, when it was the View of an active row and the store answered).
\* The steps that leave a View or a Manage in last are the steps of
\* handleGetSecret and handleManageSecret, and ticks of the clock after them.
C17_ViewAndManageReadOnly ==
    [][last'.op \in {"View", "Manage"} =>
          /\ secrets' = secrets
          /\ \A r \in Rows(secrets) :
                Active(r) =>
                   /\ GetSecret(secrets', r.viewing_id, cookies',
                                FALSE).resp.body[2] = Val(r.cipher_text)
                   /\ (/\ last'.op = "View"
                       /\ last'.id = r.viewing_id
                       /\ last'.resp.location # Some(<<"/oops">>)) =>
                         /\ last'.resp.status = StatusOK
                         /\ last'.resp.body[2] = Val(r.cipher_text)]_vars

\* A View has just rendered the cipher_text of a row that is still active
C17_Witness ==
    /\ last.op = "View"
    /\ last.resp.status = StatusOK
    /\ \E r \in Rows(secrets) :
          /\ r.viewing_id = last.id
          /\ Active(r)
          /\ r.cipher_text = Some(last.resp.body[2])

----------------------------------------------------------------------------
(* C18 *)

\* The fields of a row no statement writes after the INSERT
Immutable(r) ==
    <<r.viewing_id, r.management_id, r.ttl, r.created_at>>

\* C18: no step removes a row or changes the viewing_id, management_id, ttl
\* or created_at of a row; and a Delete with the management_id m leaves
\* every row with another management_id exactly as it was (what it changes
\* in a row with the management_id m is cipher_text, deleted_at and
\* deletion_reason only), and no step changes more than one row.
C18_DeleteFrame ==
    [][/\ Len(secrets') >= Len(secrets)
       /\ \A i \in 1..Len(secrets) :
             /\ Immutable(secrets'[i]) = Immutable(secrets[i])
             /\ (last'.op = "Delete" /\ secrets[i].management_id # last'.id)
                   => secrets'[i] = secrets[i]
             /\ last'.op # "Delete" => secrets'[i] = secrets[i]
       /\ Cardinality({i \in 1..Len(secrets) : secrets'[i] # secrets[i]}) <= 1
      ]_vars

\* A Delete has just deleted one row and left another row active
C18_Witness ==
    /\ last.op = "Delete"
    /\ IsDeleteSuccess(last.resp)
    /\ \E r \in Rows(secrets) : r.management_id = last.id /\ ~Active(r)
    /\ \E r \in Rows(secrets) : r.management_id # last.id /\ Active(r)

----------------------------------------------------------------------------
(* C19 *)

\* C19: a Create of a well-formed form in which the first draw fails, the
\* second draw fails or the INSERT fails answers 500 with no body and no
\* location, draws no identifier again and runs no second INSERT, and leaves
\* the table exactly as it was.
C19_CreateFailureLeavesNoTrace ==
    /\ \A run \in {r \in CreateRuns : r[1] \in ValidForms /\ Reads(r)} :
          LET v == run[2]
              m == run[3]
              dbFail == run[4]
              out == CreateSecret(secrets, run[1], v, m, now, dbFail)
          IN  (\/ v.err \/ m.err \/ dbFail
               \/ out.resp.status = StatusInternalServerError) =>
                 /\ out.resp =
                      Response(StatusInternalServerError, NULL, <<>>, <<>>)
                 /\ out.rows = secrets
                 /\ out.draws = IF v.err THEN 1 ELSE 2
                 /\ out.execs = IF v.err \/ m.err THEN 0 ELSE 1
    /\ (last.op = "Create"
        /\ last.resp.status = StatusInternalServerError) =>
          /\ last.resp.body = <<>>
          /\ IsNull(last.resp.location)
          /\ last.draws <= 2
          /\ last.execs <= 1

\* The second draw of a Create has just failed while records are stored
C19_Witness ==
    /\ last.op = "Create"
    /\ last.resp.status = StatusInternalServerError
    /\ last.draws = 2
    /\ last.execs = 0
    /\ Len(secrets) > 0

----------------------------------------------------------------------------
(* C20 *)

\* The notification a cookie of the browser holds, "" when it holds none
Pending(jar, n) == IF IsNull(jar[n]) THEN <<>> ELSE Val(jar[n])

NoCookies == [n \in FlashNames |-> NULL]

\* The error and the success notification a rendered page shows
Shown(resp) == <<resp.body[Len(resp.body) - 1], resp.body[Len(resp.body)]>>

\* C20: a notification set by a View or Manage that found nothing, or by a
\* Delete, stays pending until a page is rendered; the page that is rendered
\* next shows exactly the pending notifications and clears them, so that a
\* later page shows them only if they were set again; a page rendered with
\* nothing pending shows none and sets no cookie. (Every step that leaves
\* the clock alone serves a request; the pages have status 200.)
C20_OneShotNotifications ==
    [][now' = now =>
          /\ last'.resp.status = StatusOK =>
                /\ Shown(last'.resp) = <<Pending(cookies, "flash_err"),
                                         Pending(cookies, "flash_success")>>
                /\ cookies' = NoCookies
                /\ cookies = NoCookies =>
                      /\ Shown(last'.resp) = <<<<>>, <<>>>>
                      /\ last'.resp.setCookies = <<>>
          /\ last'.resp.status # StatusOK =>
                /\ \A n \in FlashNames :
                      ~IsNull(cookies[n]) => ~IsNull(cookies'[n])
                /\ IsNotFound(last'.resp) =>
                      cookies' = [cookies EXCEPT
                                    !["flash_err"] = Some(MsgNotFound)]
                /\ IsDeleteSuccess(last'.resp) =>
                      cookies' = [cookies EXCEPT
                                    !["flash_success"] = Some(MsgDeleted)]
                /\ cookies' # cookies =>
                      IsNotFound(last'.resp) \/ IsDeleteSuccess(last'.resp)
      ]_vars

\* The landing page has just shown the notification of a Delete and
\* cleared it
C20_Witness ==
    /\ last.op = "Index"
    /\ last.resp.status = StatusOK
    /\ Shown(last.resp)[2] = MsgDeleted
    /\ last.resp.setCookies # <<>>
    /\ cookies = NoCookies
    /\ deleteDone # {}

====
